---- MODULE Spec2Model ----
(***************************************************************************)
(* Model of the Rust benchmark client (clients/rust/src/main.rs): main,    *)
(* the three run functions (run_grpc_balance, run_rest_balance,            *)
(* run_grpc_stream) with their worker tasks and resource monitor task,     *)
(* the bounded mpsc channel between them, and store_results.               *)
(***************************************************************************)
EXTENDS Integers, Sequences, FiniteSets, TLC

\* ------------------------------------------------------------------ bounds
\* Largest --concurrency value explored.
MaxWorkers == 2
\* Capacity of the sample channel in the model (mpsc::channel(10000) in the
\* code; the model keeps it small so that senders do find it full).
ChanCap == 1
\* Most sampling ticks the resource monitor starts while the flag is set.
MaxReadings == 1
\* Largest reading of the monotonic clock (Instant::now()).
MaxTime == 1
\* Longest sample sequence built from arbitrary samples.
MaxSamples == 3
\* Largest latency of such a sample, in nanoseconds.
MaxLatency == 2
\* Length of the long run of successful samples with latencies 1, 2, 3, ...
BigRun == 50

\* ------------------------------------------------------- program constants
\* connect_with_retry(pool, 3)
MaxRetries == 3
\* results.samples.chunks(1000)
ChunkSize == 1000

Workers == 1..MaxWorkers

VARIABLES
    args,           \* the parsed command line (Args)
    mainPc,         \* position of main
    exitStatus,     \* how the process ended: "none", "exit1", "err", "ok"
    duration,       \* result of parse_duration, in milliseconds (-1: none yet)
    accounts,       \* number of account ids fetch_account_ids loaded
    storeResult,    \* what store_results returned: "none", "Ok", "Err"
    console,        \* what the process printed, stdout and stderr, in order
    drvPc,          \* position of the run function (the driver)
    running,        \* the AtomicBool: "unset" before it exists, "true", "false"
    chan,           \* samples buffered in the mpsc channel
    drvTx,          \* the run function still holds its Sender (tx)
    wTx,            \* the workers holding a clone of the Sender
    rxOpen,         \* the Receiver exists (the run function has not returned)
    spawned,        \* number of worker tasks spawned so far
    wPc,            \* position of each worker task
    wExit,          \* why each worker task ended
    started,        \* per worker: invocations begun
    lateStarted,    \* per worker: invocations begun after the flag was cleared
    lateNow,        \* per worker: its current invocation began after the clear
    lateItem,       \* per worker: a stream item reached it after the clear
    failures,       \* per worker: invocations that returned a failure
    pending,        \* per worker: the Sample it is about to send
    request_count,  \* the AtomicU64 of run_grpc_balance
    mPc,            \* position of the resource monitor task
    ticks,          \* sampling ticks the monitor has taken
    latePushes,     \* cpu readings appended after the flag was cleared
    cpu_samples,    \* the shared Mutex<Vec<f32>>
    mem_samples,    \* the shared Mutex<Vec<u64>>
    results,        \* the Results value of the run
    now             \* the last reading of the monotonic clock (Instant::now())

vars == << args, mainPc, exitStatus, duration, accounts, storeResult, console,
           drvPc, running, chan, drvTx, wTx, rxOpen, spawned,
           wPc, wExit, started, lateStarted, lateNow, lateItem, failures, pending,
           request_count, mPc, ticks,
           latePushes, cpu_samples, mem_samples, results, now >>

mainVars == << args, mainPc, exitStatus, duration, accounts, storeResult,
               console >>
workerVars == << wPc, wExit, started, lateStarted, lateNow, lateItem, failures, pending,
                request_count >>
monitorVars == << mPc, ticks, latePushes, cpu_samples, mem_samples >>
chanVars == << chan, drvTx, wTx, rxOpen >>

\* ---------------------------------------------------------------- strings
\* A string is a sequence of one-character strings.
Digits == {"0", "1", "2", "3", "4", "5", "6", "7", "8", "9"}

DigitVal(c) ==
    CASE c = "0" -> 0 [] c = "1" -> 1 [] c = "2" -> 2 [] c = "3" -> 3
      [] c = "4" -> 4 [] c = "5" -> 5 [] c = "6" -> 6 [] c = "7" -> 7
      [] c = "8" -> 8 [] c = "9" -> 9

\* str::trim
RECURSIVE TrimStart(_)
TrimStart(s) ==
    IF s # << >> /\ Head(s) = " " THEN TrimStart(Tail(s)) ELSE s

RECURSIVE TrimEnd(_)
TrimEnd(s) ==
    IF s # << >> /\ s[Len(s)] = " " THEN TrimEnd(SubSeq(s, 1, Len(s) - 1)) ELSE s

Trim(s) == TrimEnd(TrimStart(s))

\* str::ends_with
EndsWith(s, suf) ==
    /\ Len(s) >= Len(suf)
    /\ SubSeq(s, Len(s) - Len(suf) + 1, Len(s)) = suf

\* str::trim_end_matches: the suffix is removed as often as it matches
RECURSIVE TrimEndMatches(_, _)
TrimEndMatches(s, suf) ==
    IF EndsWith(s, suf)
    THEN TrimEndMatches(SubSeq(s, 1, Len(s) - Len(suf)), suf)
    ELSE s

RECURSIVE DecimalValue(_)
DecimalValue(s) ==
    IF s = << >> THEN 0
    ELSE 10 * DecimalValue(SubSeq(s, 1, Len(s) - 1)) + DigitVal(s[Len(s)])

\* <u64 as FromStr>::from_str: an optional "+", then one or more digits.
\* -1 stands for Err. (The strings explored are a few characters long, so
\* the value is always far below 2^64 and the overflow Err cannot arise.)
ParseU64(s) ==
    LET body == IF s # << >> /\ Head(s) = "+" THEN Tail(s) ELSE s
    IN  IF body = << >> \/ \E i \in 1..Len(body) : body[i] \notin Digits
        THEN -1
        ELSE DecimalValue(body)

\* parse_duration: the Duration in milliseconds, -1 for Err.
parse_duration(str) ==
    LET s == Trim(str)
    IN  IF EndsWith(s, <<"m", "s">>)
        THEN ParseU64(TrimEndMatches(s, <<"m", "s">>))
        ELSE IF EndsWith(s, <<"s">>)
        THEN LET val == ParseU64(TrimEndMatches(s, <<"s">>))
             IN  IF val = -1 THEN -1 ELSE val * 1000
        ELSE IF EndsWith(s, <<"m">>)
        THEN LET val == ParseU64(TrimEndMatches(s, <<"m">>))
             IN  IF val = -1 THEN -1 ELSE (val * 60) * 1000
        ELSE -1

\* The --duration values explored: two that parse, five that do not.
DurationArgs ==
    { <<"1", "s">>, <<" ", "5", "m", "s">>,
      <<"1", "0">>, <<"x", "s">>, <<"m", "s">>, <<"-", "1", "m">>, << >> }

Scenarios == {"balance", "stream", "other"}
Protocols == {"grpc", "rest", "other"}

\* The run function main calls for the scenario and protocol.
Mode ==
    IF args.scenario = "balance" /\ args.protocol = "grpc" THEN "grpc_balance"
    ELSE IF args.scenario = "balance" /\ args.protocol = "rest" THEN "rest_balance"
    ELSE IF args.scenario = "stream" /\ args.protocol = "grpc" THEN "grpc_stream"
    ELSE "none"

BalanceMode == Mode \in {"grpc_balance", "rest_balance"}

\* ------------------------------------------------------------------ Results
\* Results::default()
ResultsDefault ==
    [samples |-> << >>, start_time |-> -1, end_time |-> -1,
     cpu_samples |-> << >>, mem_samples |-> << >>]

\* add_sample with insert(0, sample) in place of push(sample)
add_sampleFront(r, sample) == [r EXCEPT !.samples = << sample >> \o @]

\* Results::add_sample
add_sample(r, sample) == [r EXCEPT !.samples = Append(@, sample)]

RECURSIVE CountIf(_, _)
CountIf(s, flag) ==
    IF s = << >> THEN 0
    ELSE (IF Head(s).success = flag THEN 1 ELSE 0) + CountIf(Tail(s), flag)

\* Results::success_count
success_count(r) == CountIf(r.samples, TRUE)

\* error_count with the filter forgotten: every sample counts as an error
error_countUnfiltered(r) == Len(r.samples)

\* Results::error_count
error_count(r) == CountIf(r.samples, FALSE)

\* Results::latencies: the latencies of the successful samples, in order
latencies(r) ==
    LET ok == SelectSeq(r.samples, LAMBDA s : s.success)
    IN  [i \in 1..Len(ok) |-> ok[i].latency]

\* What a function gives when the code panics (index out of bounds, division
\* by zero); a Duration and a count are never negative
Panic == -1

\* slice[i], i counted from 0
Index(s, i) == IF i >= 0 /\ i < Len(s) THEN s[i + 1] ELSE Panic

\* ------------------------------------------------------------ f64 arithmetic
\* An f64 that is positive and normal: the 53 bits of its significand in
\* three limbs, hi (17 bits, the first of them 1), mid and lo (18 bits each),
\* and the exponent e of the last bit, so that its value is
\* (hi * 2^36 + mid * 2^18 + lo) * 2^e. Zero has hi = 0.
Limb == 2^18

F64Zero == [hi |-> 0, mid |-> 0, lo |-> 0, e |-> 0]

\* Number of bits of x
BitLen(x) == CHOOSE b \in 0..30 : x < 2^b /\ (b = 0 \/ x >= 2^(b - 1))

\* The next f64 above a
F64Up(a) ==
    IF a.lo + 1 < Limb THEN [a EXCEPT !.lo = @ + 1]
    ELSE IF a.mid + 1 < Limb THEN [a EXCEPT !.lo = 0, !.mid = @ + 1]
    ELSE IF a.hi + 1 < 2^17 THEN [a EXCEPT !.lo = 0, !.mid = 0, !.hi = @ + 1]
    ELSE [hi |-> 2^16, mid |-> 0, lo |-> 0, e |-> a.e + 1]

\* Rounding to nearest, ties to even: a is the exact value cut off after 53
\* bits, rem / full (below 1) the part of its last bit that was cut off
F64Nearest(a, rem, full) ==
    IF 2 * rem > full \/ (2 * rem = full /\ a.lo % 2 = 1) THEN F64Up(a) ELSE a

\* p / d in f64, for p and d whole numbers (which f64 holds exactly): the
\* quotient rounded to nearest. p and d are first scaled by powers of two to
\* a and b with b <= a < 2b; the 53 bits of a / b come by long division.
F64DivInt(p, d) ==
    IF p = 0 THEN F64Zero
    ELSE LET i == CHOOSE x \in 0..30 : p * 2^x >= d /\ (x = 0 \/ p * 2^(x - 1) < d)
             a == p * 2^i
             j == CHOOSE x \in 0..30 : a < d * 2^(x + 1)
             b == d * 2^j
             hi == (a * 2^16) \div b
             r1 == (a * 2^16) % b
             mid == (r1 * Limb) \div b
             r2 == (r1 * Limb) % b
             lo == (r2 * Limb) \div b
             r3 == (r2 * Limb) % b
         IN  F64Nearest([hi |-> hi, mid |-> mid, lo |-> lo, e |-> j - i - 52],
                        r3, b)

\* a * (k as f64) in f64, for k a whole number: the exact product, limb by
\* limb with carries, cut to 53 bits and rounded to nearest
F64MulInt(a, k) ==
    IF a = F64Zero \/ k = 0 THEN F64Zero
    ELSE LET t0 == a.lo * k
             t1 == a.mid * k + t0 \div Limb
             t2 == a.hi * k + t1 \div Limb
             l0 == t0 % Limb
             l1 == t1 % Limb
             x == BitLen(t2) - 17
             w == 2^x
         IN  F64Nearest([hi |-> t2 \div w,
                         mid |-> ((t2 % w) * Limb + l1) \div w,
                         lo |-> ((l1 % w) * Limb + l0) \div w,
                         e |-> a.e + x],
                        l0 % w, w)

\* a as usize: the whole part (of a value below 2^30)
F64ToUsize(a) ==
    LET s == (0 - a.e) - 36
    IN  IF a = F64Zero \/ s >= 17 THEN 0
        ELSE IF s >= 0 THEN a.hi \div 2^s
        ELSE a.hi * 2^(0 - s) + a.mid \div 2^(18 + s)

\* ---------------------------------------------------------------- statistics
\* Sort with the sort forgotten: the latencies stay in arrival order
SortNone(s) == s

\* slice::sort on Durations: ascending
Sort(s) == SortSeq(s, LAMBDA a, b : a < b)

Min(a, b) == IF a <= b THEN a ELSE b

\* ((p / 100.0) * latencies.len() as f64) as usize
PercentileIdx(p, n) == F64ToUsize(F64MulInt(F64DivInt(p, 100), n))

\* percentile without the clamp idx.min(len - 1)
percentileNoClamp(r, p) ==
    LET lat == latencies(r)
    IN  IF lat = << >> THEN 0
        ELSE Index(Sort(lat), PercentileIdx(p, Len(lat)))

\* Results::percentile, for p a whole number
percentile(r, p) ==
    LET lat == latencies(r)
    IN  IF lat = << >> THEN 0
        ELSE Index(Sort(lat), Min(PercentileIdx(p, Len(lat)), Len(lat) - 1))

RECURSIVE Sum(_)
Sum(s) == IF s = << >> THEN 0 ELSE Head(s) + Sum(Tail(s))

\* Duration / u32: whole nanoseconds; a zero divisor panics. (len as u32 is
\* len itself: the sequences explored are far shorter than 2^32.)
DivU32(total, n) == IF n = 0 THEN Panic ELSE total \div n

\* avg_latency without the is_empty guard
avg_latencyNoGuard(r) == DivU32(Sum(latencies(r)), Len(latencies(r)))

\* Results::avg_latency
avg_latency(r) ==
    LET lat == latencies(r)
    IN  IF lat = << >> THEN 0 ELSE DivU32(Sum(lat), Len(lat))

\* Results::min_latency: Iterator::min, unwrap_or(Duration::ZERO)
min_latency(r) ==
    LET lat == latencies(r)
    IN  IF lat = << >> THEN 0
        ELSE CHOOSE x \in { lat[i] : i \in 1..Len(lat) } :
               \A i \in 1..Len(lat) : x <= lat[i]

\* Results::max_latency: Iterator::max, unwrap_or(Duration::ZERO)
max_latency(r) ==
    LET lat == latencies(r)
    IN  IF lat = << >> THEN 0
        ELSE CHOOSE x \in { lat[i] : i \in 1..Len(lat) } :
               \A i \in 1..Len(lat) : x >= lat[i]

\* Instant::duration_since: zero when the other Instant is the later one
duration_since(end, start) == IF end >= start THEN end - start ELSE 0

\* An f64 quotient a / b of whole numbers, kept as the fraction << a, b >>;
\* 0.0 is << 0, 1 >>
F64Quot(a, b) == << a, b >>

\* throughput with samples.len() in place of success_count()
throughput_all(r) ==
    IF r.start_time # -1 /\ r.end_time # -1
    THEN LET d == duration_since(r.end_time, r.start_time)
         IN  IF d > 0 THEN F64Quot(Len(r.samples), d) ELSE F64Quot(0, 1)
    ELSE F64Quot(0, 1)

\* Results::throughput: the clock of the model counts whole seconds, so
\* as_secs_f64 of a duration is the duration
throughput(r) ==
    IF r.start_time # -1 /\ r.end_time # -1
    THEN LET d == duration_since(r.end_time, r.start_time)
         IN  IF d > 0 THEN F64Quot(success_count(r), d) ELSE F64Quot(0, 1)
    ELSE F64Quot(0, 1)

\* Results::print_summary: the request, throughput, latency and error lines
print_summary(r) ==
    [requests |-> Len(r.samples),
     throughput |-> throughput(r),
     p50 |-> percentile(r, 50),
     p90 |-> percentile(r, 90),
     p99 |-> percentile(r, 99),
     avg |-> avg_latency(r),
     min |-> min_latency(r),
     max |-> max_latency(r),
     errors |-> error_count(r)]

Init ==
    /\ args \in [scenario : Scenarios, protocol : Protocols,
                 concurrency : 0..MaxWorkers, duration : DurationArgs]
    /\ mainPc = "validate"
    /\ exitStatus = "none"
    /\ duration = -1
    /\ accounts = 0
    /\ storeResult = "none"
    /\ console = << >>
    /\ drvPc = "idle"
    /\ running = "unset"
    /\ chan = << >>
    /\ drvTx = FALSE
    /\ wTx = {}
    /\ rxOpen = FALSE
    /\ spawned = 0
    /\ wPc = [w \in Workers |-> "unspawned"]
    /\ wExit = [w \in Workers |-> "none"]
    /\ started = [w \in Workers |-> 0]
    /\ lateStarted = [w \in Workers |-> 0]
    /\ lateNow = [w \in Workers |-> FALSE]
    /\ lateItem = [w \in Workers |-> FALSE]
    /\ failures = [w \in Workers |-> 0]
    /\ pending = [w \in Workers |-> << >>]
    /\ request_count = 0
    /\ mPc = "unspawned"
    /\ ticks = 0
    /\ latePushes = 0
    /\ cpu_samples = << >>
    /\ mem_samples = << >>
    /\ results = ResultsDefault
    /\ now = 0

\* --------------------------------------------------------------------- main
Say(tag, val) == Append(console, [tag |-> tag, val |-> val])

Said(tag) == \E i \in 1..Len(console) : console[i].tag = tag

\* What print_summary shows of the Results: the request count and the error
\* count (the remaining lines are statistics of the same value).
Summary(r) == << Len(r.samples), error_count(r), r.start_time, r.end_time,
                 Len(r.cpu_samples), Len(r.mem_samples) >>

\* main returns Err(..) through `?`
MainErr(tag) ==
    /\ mainPc' = "exit"
    /\ exitStatus' = "err"
    /\ console' = Say(tag, << >>)

\* std::process::exit(1) after an eprintln
MainExit1(tag) ==
    /\ mainPc' = "exit"
    /\ exitStatus' = "exit1"
    /\ console' = Say(tag, << >>)

\* main: validation of --scenario and --protocol
MainValidate ==
    /\ mainPc = "validate"
    /\ IF args.scenario \notin {"balance", "stream"}
       THEN MainExit1("invalid_scenario")
       ELSE IF args.protocol \notin {"grpc", "rest"}
       THEN MainExit1("invalid_protocol")
       ELSE mainPc' = "parse" /\ UNCHANGED << exitStatus, console >>
    /\ UNCHANGED << args, duration, accounts, storeResult,
                    drvPc, running, chan, drvTx, wTx, rxOpen, spawned, results, now >>
    /\ UNCHANGED << workerVars, monitorVars >>

\* MainParse with the parse error swallowed (unwrap_or_default): the run goes
\* on with a zero duration.
MainParseDefault ==
    /\ mainPc = "parse"
    /\ LET d == parse_duration(args.duration)
       IN  duration' = IF d = -1 THEN 0 ELSE d
    /\ mainPc' = "pool"
    /\ UNCHANGED << args, exitStatus, console, accounts, storeResult,
                    drvPc, running, chan, drvTx, wTx, rxOpen, spawned,
                    results, now >>
    /\ UNCHANGED << workerVars, monitorVars >>

\* main: let duration = parse_duration(&args.duration)?
MainParse ==
    /\ mainPc = "parse"
    /\ LET d == parse_duration(args.duration)
       IN  IF d = -1
           THEN MainErr("error") /\ UNCHANGED duration
           ELSE /\ duration' = d
                /\ mainPc' = "pool"
                /\ UNCHANGED << exitStatus, console >>
    /\ UNCHANGED << args, accounts, storeResult,
                    drvPc, running, chan, drvTx, wTx, rxOpen, spawned, results, now >>
    /\ UNCHANGED << workerVars, monitorVars >>

\* main: create_db_pool(..)?; a balance run goes on to load the account ids
MainPool ==
    /\ mainPc = "pool"
    /\ \E ok \in BOOLEAN :
         IF ok
         THEN /\ mainPc' = IF args.scenario = "balance" THEN "fetch" ELSE "start"
              /\ console' = Say("pool_created", << >>)
              /\ UNCHANGED exitStatus
         ELSE MainErr("error")
    /\ UNCHANGED << args, duration, accounts, storeResult,
                    drvPc, running, chan, drvTx, wTx, rxOpen, spawned, results, now >>
    /\ UNCHANGED << workerVars, monitorVars >>

\* How many pool.get() calls in a row fail, from the first on: the pool's
\* behaviour as connect_with_retry meets it
Attempts == 0..(MaxRetries + 1)

\* connect_with_retry: Ok with the first attempt in 0..=max_retries whose
\* pool.get() is Ok, Err when all of them fail
connect_with_retry(failing) == \E attempt \in 0..MaxRetries : attempt >= failing

\* main: fetch_account_ids(&pool).await?, connect_with_retry and the SELECT;
\* the table may hold no account
MainFetch ==
    /\ mainPc = "fetch"
    /\ \E failing \in Attempts, queried \in BOOLEAN :
         IF connect_with_retry(failing) /\ queried
         THEN /\ accounts' \in 0..1
              /\ mainPc' = "start"
              /\ console' = Say("loaded", << >>)
              /\ UNCHANGED exitStatus
         ELSE MainErr("error") /\ UNCHANGED accounts
    /\ UNCHANGED << args, duration, storeResult,
                    drvPc, running, chan, drvTx, wTx, rxOpen, spawned, results, now >>
    /\ UNCHANGED << workerVars, monitorVars >>

\* main: the match on (scenario, protocol) that calls the run function
MainStart ==
    /\ mainPc = "start"
    /\ IF Mode = "none"
       THEN MainExit1("not_implemented") /\ UNCHANGED drvPc
       ELSE /\ mainPc' = "run"
            /\ drvPc' = "create"
            /\ console' = Say("starting", << >>)
            /\ UNCHANGED exitStatus
    /\ UNCHANGED << args, duration, accounts, storeResult,
                    running, chan, drvTx, wTx, rxOpen, spawned, results, now >>
    /\ UNCHANGED << workerVars, monitorVars >>

\* main: results.print_summary(..) once the run function has returned
MainPrint ==
    /\ mainPc = "run"
    /\ drvPc = "returned"
    /\ console' = Say("summary", Summary(results))
    /\ mainPc' = "store"
    /\ UNCHANGED << args, exitStatus, duration, accounts, storeResult,
                    drvPc, running, chan, drvTx, wTx, rxOpen, spawned,
                    results, now >>
    /\ UNCHANGED << workerVars, monitorVars >>

\* Number of chunks of results.samples.chunks(1000)
Chunks(r) == (Len(r.samples) + ChunkSize - 1) \div ChunkSize

\* store_results: connect_with_retry, the INSERT of the run record, one batch
\* INSERT per chunk (failedChunk: the first that fails, none when it is
\* Chunks(r)); "Ok" with the "Results saved" line printed, or "Err" by `?`
store_results(r, failing, inserted, failedChunk) ==
    IF connect_with_retry(failing) /\ inserted /\ failedChunk = Chunks(r)
    THEN "Ok"
    ELSE "Err"

\* main: `let _ = store_results(..).await; Ok(())`
MainStore ==
    /\ mainPc = "store"
    /\ \E failing \in Attempts, inserted \in BOOLEAN, failedChunk \in 0..Chunks(results) :
         LET res == store_results(results, failing, inserted, failedChunk)
         IN  /\ storeResult' = res
             /\ console' = IF res = "Ok" THEN Say("saved", << >>) ELSE console
    /\ mainPc' = "exit"
    /\ exitStatus' = "ok"
    /\ UNCHANGED << args, duration, accounts,
                    drvPc, running, chan, drvTx, wTx, rxOpen, spawned, results, now >>
    /\ UNCHANGED << workerVars, monitorVars >>

\* ------------------------------------------------------------ the run function
\* The three run functions differ in the worker task only; the driver below
\* is run_grpc_balance, run_rest_balance and run_grpc_stream alike.

\* DrvCreate with the flag created false: AtomicBool::new(false)
DrvCreateFlagFalse ==
    /\ drvPc = "create"
    /\ results' = ResultsDefault
    /\ chan' = << >>
    /\ drvTx' = TRUE
    /\ rxOpen' = TRUE
    /\ running' = "false"
    /\ request_count' = 0
    /\ cpu_samples' = << >>
    /\ mem_samples' = << >>
    /\ drvPc' = "spawn_monitor"
    /\ UNCHANGED << mainVars, wTx, spawned, wPc, wExit, started, lateStarted,
                    lateNow, lateItem, failures, pending, mPc, ticks, latePushes, now >>

\* Results::default(), mpsc::channel(10000), the flag set true, the counter,
\* the two shared reading vectors
DrvCreate ==
    /\ drvPc = "create"
    /\ results' = ResultsDefault
    /\ chan' = << >>
    /\ drvTx' = TRUE
    /\ rxOpen' = TRUE
    /\ running' = "true"
    /\ request_count' = 0
    /\ cpu_samples' = << >>
    /\ mem_samples' = << >>
    /\ drvPc' = "spawn_monitor"
    /\ UNCHANGED << mainVars, wTx, spawned, wPc, wExit, started, lateStarted,
                    lateNow, lateItem, failures, pending, mPc, ticks, latePushes, now >>

\* tokio::spawn of the resource monitor task, which sets up its System, pid
\* and interval and comes to its loop
DrvSpawnMonitor ==
    /\ drvPc = "spawn_monitor"
    /\ mPc' = "check"
    /\ drvPc' = "start_time"
    /\ UNCHANGED << mainVars, workerVars, chanVars, running, spawned, results,
                    ticks, latePushes, cpu_samples, mem_samples, now >>

\* results.start_time = Some(Instant::now()): the first reading of the
\* clock, the origin of the model's time
DrvStartTime ==
    /\ drvPc = "start_time"
    /\ results' = [results EXCEPT !.start_time = now]
    /\ drvPc' = "spawn_workers"
    /\ UNCHANGED << mainVars, workerVars, monitorVars, chanVars, running,
                    spawned, now >>

\* One round of `for _ in 0..concurrency`: tx.clone() and tokio::spawn
DrvSpawnWorker ==
    /\ drvPc = "spawn_workers"
    /\ spawned < args.concurrency
    /\ spawned' = spawned + 1
    /\ wTx' = wTx \cup {spawned + 1}
    /\ wPc' = [wPc EXCEPT ![spawned + 1] = "connect"]
    /\ UNCHANGED << mainVars, monitorVars, drvPc, running, chan, drvTx, rxOpen,
                    wExit, started, lateStarted, lateNow, lateItem, failures, pending,
                    request_count, results, now >>

\* DrvDropTx without the drop(tx): the driver keeps its Sender while draining
DrvKeepTx ==
    /\ drvPc = "spawn_workers"
    /\ spawned = args.concurrency
    /\ drvPc' = "sleep"
    /\ UNCHANGED << mainVars, workerVars, monitorVars, chanVars, running,
                    spawned, results, now >>

\* drop(tx) after the loop
DrvDropTx ==
    /\ drvPc = "spawn_workers"
    /\ spawned = args.concurrency
    /\ drvTx' = FALSE
    /\ drvPc' = "sleep"
    /\ UNCHANGED << mainVars, workerVars, monitorVars, running, chan, wTx,
                    rxOpen, spawned, results, now >>

\* tokio::time::sleep(duration).await returns; running.store(false)
DrvStop ==
    /\ drvPc = "sleep"
    /\ running' = "false"
    /\ drvPc' = "drain"
    /\ UNCHANGED << mainVars, workerVars, monitorVars, chanVars, spawned,
                    results, now >>

\* The channel is closed: every Sender is dropped
Closed == ~drvTx /\ wTx = {}

\* DrvRecv with the collector loop running during the sleep as well: samples
\* are received while the flag is still set
DrvRecvEarly ==
    /\ drvPc \in {"sleep", "drain"}
    /\ IF chan # << >>
       THEN /\ results' = add_sample(results, Head(chan))
            /\ chan' = Tail(chan)
            /\ UNCHANGED drvPc
       ELSE /\ drvPc = "drain"
            /\ Closed
            /\ drvPc' = "end_time"
            /\ UNCHANGED << results, chan >>
    /\ UNCHANGED << mainVars, workerVars, monitorVars, running, drvTx, wTx,
                    rxOpen, spawned, now >>

\* while let Some(sample) = rx.recv().await { results.add_sample(sample) }
\* recv waits while the channel is empty and a Sender lives
DrvRecv ==
    /\ drvPc = "drain"
    /\ IF chan # << >>
       THEN /\ results' = add_sample(results, Head(chan))
            /\ chan' = Tail(chan)
            /\ UNCHANGED drvPc
       ELSE /\ Closed
            /\ drvPc' = "end_time"
            /\ UNCHANGED << results, chan >>
    /\ UNCHANGED << mainVars, workerVars, monitorVars, running, drvTx, wTx,
                    rxOpen, spawned, now >>

\* results.end_time = Some(Instant::now()): the clock is monotonic and has
\* advanced by some amount, none included, since its last reading
DrvEndTime ==
    /\ drvPc = "end_time"
    /\ \E t \in now..MaxTime :
         /\ now' = t
         /\ results' = [results EXCEPT !.end_time = t]
    /\ drvPc' = "copy_cpu"
    /\ UNCHANGED << mainVars, workerVars, monitorVars, chanVars, running,
                    spawned >>

\* results.cpu_samples = cpu_samples.lock().await.clone()
DrvCopyCpu ==
    /\ drvPc = "copy_cpu"
    /\ results' = [results EXCEPT !.cpu_samples = cpu_samples]
    /\ drvPc' = "copy_mem"
    /\ UNCHANGED << mainVars, workerVars, monitorVars, chanVars, running,
                    spawned, now >>

\* results.mem_samples = mem_samples.lock().await.clone(); the function
\* returns results and its Receiver is dropped
DrvCopyMem ==
    /\ drvPc = "copy_mem"
    /\ results' = [results EXCEPT !.mem_samples = mem_samples]
    /\ rxOpen' = FALSE
    /\ drvPc' = "returned"
    /\ UNCHANGED << mainVars, workerVars, monitorVars, running, chan, drvTx,
                    wTx, spawned, now >>

\* ------------------------------------------------------------ the worker task
\* The task ends: its Sender clone is dropped with it
WorkerEnd(w, why) ==
    /\ wPc' = [wPc EXCEPT ![w] = "done"]
    /\ wExit' = [wExit EXCEPT ![w] = why]
    /\ wTx' = wTx \ {w}

\* WorkerConnect with the `return` of the error arms missing: the worker
\* logs the failure and enters its loop all the same
WorkerConnectNoReturn(w) ==
    /\ wPc[w] = "connect"
    /\ \E outcome \in (IF Mode = "rest_balance"
                       THEN {"ok", "build_failed"}
                       ELSE {"ok", "invalid_uri", "connect_failed"}) :
         /\ wPc' = [wPc EXCEPT ![w] =
                       IF Mode = "grpc_stream" THEN "open_stream" ELSE "check"]
         /\ wExit' = [wExit EXCEPT ![w] = IF outcome = "ok" THEN @ ELSE outcome]
         /\ UNCHANGED wTx
    /\ UNCHANGED << mainVars, monitorVars, drvPc, running, chan, drvTx, rxOpen,
                    spawned, started, lateStarted, lateNow, lateItem, failures, pending,
                    request_count, results, now >>

\* Channel::from_shared(addr) and connect().await (gRPC), or the reqwest
\* Client built and unwrapped (REST); a failure ends the task
WorkerConnect(w) ==
    /\ wPc[w] = "connect"
    /\ \E outcome \in (IF Mode = "rest_balance"
                       THEN {"ok", "build_failed"}
                       ELSE {"ok", "invalid_uri", "connect_failed"}) :
         IF outcome = "ok"
         THEN /\ wPc' = [wPc EXCEPT ![w] =
                            IF Mode = "grpc_stream" THEN "open_stream" ELSE "check"]
              /\ UNCHANGED << wExit, wTx >>
         ELSE WorkerEnd(w, outcome)
    /\ UNCHANGED << mainVars, monitorVars, drvPc, running, chan, drvTx, rxOpen,
                    spawned, started, lateStarted, lateNow, lateItem, failures, pending,
                    request_count, results, now >>

\* run_grpc_stream: client.stream_transactions(request).await
WorkerOpenStream(w) ==
    /\ wPc[w] = "open_stream"
    /\ \E ok \in BOOLEAN :
         IF ok
         THEN wPc' = [wPc EXCEPT ![w] = "check"] /\ UNCHANGED << wExit, wTx >>
         ELSE WorkerEnd(w, "stream_start_failed")
    /\ UNCHANGED << mainVars, monitorVars, drvPc, running, chan, drvTx, rxOpen,
                    spawned, started, lateStarted, lateNow, lateItem, failures, pending,
                    request_count, results, now >>

\* while running.load(Ordering::Relaxed)
WorkerCheck(w) ==
    /\ wPc[w] = "check"
    /\ IF running = "true"
       THEN wPc' = [wPc EXCEPT ![w] = "start"] /\ UNCHANGED << wExit, wTx >>
       ELSE WorkerEnd(w, "stopped")
    /\ UNCHANGED << mainVars, monitorVars, drvPc, running, chan, drvTx, rxOpen,
                    spawned, started, lateStarted, lateNow, lateItem, failures, pending,
                    request_count, results, now >>

\* The loop body up to its first await: the invocation begins. A balance
\* worker first picks an account id, account_ids.choose(..).unwrap(), which
\* panics on an empty list.
WorkerStart(w) ==
    /\ wPc[w] = "start"
    /\ IF BalanceMode /\ accounts = 0
       THEN WorkerEnd(w, "no_account") /\ UNCHANGED << started, lateStarted, lateNow >>
       ELSE /\ wPc' = [wPc EXCEPT ![w] = "invoke"]
            /\ started' = [started EXCEPT ![w] = @ + 1]
            /\ lateStarted' = [lateStarted EXCEPT ![w] =
                                  IF running = "false" THEN @ + 1 ELSE @]
            /\ lateNow' = [lateNow EXCEPT ![w] = (running = "false")]
            /\ UNCHANGED << wExit, wTx >>
    /\ UNCHANGED << mainVars, monitorVars, drvPc, running, chan, drvTx, rxOpen,
                    spawned, lateItem, failures, pending, request_count,
                    results, now >>

\* The Sample of worker w's current invocation
NewSample(w, success) ==
    [w |-> w, n |-> started[w], success |-> success,
     late |-> lateNow[w]]

\* WorkerComplete with the flag read when the call returns: the result of an
\* invocation that outlived the run window is thrown away
WorkerCompleteAbort(w) ==
    /\ wPc[w] = "invoke"
    /\ IF running = "false"
       THEN /\ WorkerEnd(w, "stopped")
            /\ UNCHANGED << pending, failures, request_count >>
       ELSE \E success \in BOOLEAN :
              /\ pending' = [pending EXCEPT ![w] = << NewSample(w, success) >>]
              /\ failures' = [failures EXCEPT ![w] = IF success THEN @ ELSE @ + 1]
              /\ request_count' =
                     IF Mode = "grpc_balance" THEN request_count + 1 ELSE request_count
              /\ wPc' = [wPc EXCEPT ![w] = "send"]
              /\ UNCHANGED << wExit, wTx >>
    /\ UNCHANGED << mainVars, monitorVars, drvPc, running, chan, drvTx, rxOpen,
                    spawned, started, lateStarted, lateNow, lateItem, results, now >>

\* WorkerComplete with the stream worker waiting for the next item and for
\* the flag at once (a select): a cleared flag ends its wait with no item
WorkerCompleteSelect(w) ==
    /\ wPc[w] = "invoke"
    /\ IF BalanceMode
       THEN \E success \in BOOLEAN :
              /\ pending' = [pending EXCEPT ![w] = << NewSample(w, success) >>]
              /\ failures' = [failures EXCEPT ![w] = IF success THEN @ ELSE @ + 1]
              /\ request_count' =
                     IF Mode = "grpc_balance" THEN request_count + 1 ELSE request_count
              /\ wPc' = [wPc EXCEPT ![w] = "send"]
              /\ UNCHANGED << wExit, wTx, lateItem >>
       ELSE IF running = "false"
       THEN /\ WorkerEnd(w, "stopped")
            /\ UNCHANGED << pending, failures, request_count, lateItem >>
       ELSE \E item \in {"event", "error", "end"} :
              /\ lateItem' = [lateItem EXCEPT ![w] = (running = "false")]
              /\ IF item = "event"
                 THEN /\ pending' = [pending EXCEPT ![w] = << NewSample(w, TRUE) >>]
                      /\ wPc' = [wPc EXCEPT ![w] = "send"]
                      /\ UNCHANGED << wExit, wTx, failures, request_count >>
                 ELSE /\ WorkerEnd(w, IF item = "error" THEN "stream_error" ELSE "stream_end")
                      /\ failures' = [failures EXCEPT ![w] =
                                         IF item = "error" THEN @ + 1 ELSE @]
                      /\ UNCHANGED << pending, request_count >>
    /\ UNCHANGED << mainVars, monitorVars, drvPc, running, chan, drvTx, rxOpen,
                    spawned, started, lateStarted, lateNow, results, now >>

\* The awaited call returns. Balance: get_balance / GET, Ok or Err, a Sample
\* either way. Stream: stream.next() gives an event (a Sample with success
\* true), an error or the end of the stream (break, no Sample).
WorkerComplete(w) ==
    /\ wPc[w] = "invoke"
    /\ IF BalanceMode
       THEN \E success \in BOOLEAN :
              /\ pending' = [pending EXCEPT ![w] = << NewSample(w, success) >>]
              /\ failures' = [failures EXCEPT ![w] = IF success THEN @ ELSE @ + 1]
              /\ request_count' =
                     IF Mode = "grpc_balance" THEN request_count + 1 ELSE request_count
              /\ wPc' = [wPc EXCEPT ![w] = "send"]
              /\ UNCHANGED << wExit, wTx, lateItem >>
       ELSE \E item \in {"event", "error", "end"} :
              /\ lateItem' = [lateItem EXCEPT ![w] = (running = "false")]
              /\ IF item = "event"
                 THEN /\ pending' = [pending EXCEPT ![w] = << NewSample(w, TRUE) >>]
                      /\ wPc' = [wPc EXCEPT ![w] = "send"]
                      /\ UNCHANGED << wExit, wTx, failures, request_count >>
                 ELSE /\ WorkerEnd(w, IF item = "error" THEN "stream_error" ELSE "stream_end")
                      /\ failures' = [failures EXCEPT ![w] =
                                         IF item = "error" THEN @ + 1 ELSE @]
                      /\ UNCHANGED << pending, request_count >>
    /\ UNCHANGED << mainVars, monitorVars, drvPc, running, chan, drvTx, rxOpen,
                    spawned, started, lateStarted, lateNow, results, now >>

\* WorkerSend with try_send in place of send().await: a Sample that finds the
\* channel full is dropped
WorkerSendLossy(w) ==
    /\ wPc[w] = "send"
    /\ IF rxOpen /\ Len(chan) < ChanCap
       THEN chan' = Append(chan, pending[w][1])
       ELSE UNCHANGED chan
    /\ pending' = [pending EXCEPT ![w] = << >>]
    /\ wPc' = [wPc EXCEPT ![w] = "check"]
    /\ UNCHANGED << mainVars, monitorVars, drvPc, running, drvTx, wTx, rxOpen,
                    spawned, wExit, started, lateStarted, lateNow, lateItem, failures,
                    request_count, results, now >>

\* let _ = tx.send(Sample { .. }).await: waits while the channel is full;
\* Err (the Receiver is gone) is discarded; then the loop goes round
WorkerSend(w) ==
    /\ wPc[w] = "send"
    /\ IF rxOpen
       THEN /\ Len(chan) < ChanCap
            /\ chan' = Append(chan, pending[w][1])
       ELSE UNCHANGED chan
    /\ pending' = [pending EXCEPT ![w] = << >>]
    /\ wPc' = [wPc EXCEPT ![w] = "check"]
    /\ UNCHANGED << mainVars, monitorVars, drvPc, running, drvTx, wTx, rxOpen,
                    spawned, wExit, started, lateStarted, lateNow, lateItem, failures,
                    request_count, results, now >>

\* --------------------------------------------------- the resource monitor task
\* MonitorCheck with `loop` in place of `while monitor_running.load(..)`: the
\* flag is not read
MonitorCheckNoFlag ==
    /\ mPc = "check"
    /\ ticks < MaxReadings
    /\ mPc' = "tick"
    /\ UNCHANGED << mainVars, workerVars, chanVars, drvPc, running, spawned,
                    ticks, latePushes, cpu_samples, mem_samples, results, now >>

\* while monitor_running.load(Ordering::Relaxed)
MonitorCheck ==
    /\ mPc = "check"
    /\ IF running = "true"
       THEN ticks < MaxReadings /\ mPc' = "tick"
       ELSE mPc' = "done"
    /\ UNCHANGED << mainVars, workerVars, chanVars, drvPc, running, spawned,
                    ticks, latePushes, cpu_samples, mem_samples, results, now >>

\* interval.tick().await returns; sys.refresh_all(); sys.process(pid)
MonitorTick ==
    /\ mPc = "tick"
    /\ ticks' = ticks + 1
    /\ \E found \in BOOLEAN : mPc' = IF found THEN "push_cpu" ELSE "check"
    /\ UNCHANGED << mainVars, workerVars, chanVars, drvPc, running, spawned,
                    latePushes, cpu_samples, mem_samples, results, now >>

\* MonitorPushCpu with the Run Result holding the shared vector itself in
\* place of a clone of it: a push shows in results.cpu_samples
MonitorPushCpuShared ==
    /\ mPc = "push_cpu"
    /\ cpu_samples' = Append(cpu_samples, ticks)
    /\ results' = [results EXCEPT !.cpu_samples = Append(cpu_samples, ticks)]
    /\ latePushes' = IF running = "false" THEN latePushes + 1 ELSE latePushes
    /\ mPc' = "push_mem"
    /\ UNCHANGED << mainVars, workerVars, chanVars, drvPc, running, spawned,
                    ticks, mem_samples, now >>

\* cpu_samples_clone.lock().await.push(process.cpu_usage())
MonitorPushCpu ==
    /\ mPc = "push_cpu"
    /\ cpu_samples' = Append(cpu_samples, ticks)
    /\ latePushes' = IF running = "false" THEN latePushes + 1 ELSE latePushes
    /\ mPc' = "push_mem"
    /\ UNCHANGED << mainVars, workerVars, chanVars, drvPc, running, spawned,
                    ticks, mem_samples, results, now >>

\* mem_samples_clone.lock().await.push(process.memory())
MonitorPushMem ==
    /\ mPc = "push_mem"
    /\ mem_samples' = Append(mem_samples, ticks)
    /\ mPc' = "check"
    /\ UNCHANGED << mainVars, workerVars, chanVars, drvPc, running, spawned,
                    ticks, latePushes, cpu_samples, results, now >>

Main ==
    \/ MainValidate
    \/ MainParse
    \/ MainPool
    \/ MainFetch
    \/ MainStart
    \/ MainPrint
    \/ MainStore

Driver ==
    \/ DrvCreate
    \/ DrvSpawnMonitor
    \/ DrvStartTime
    \/ DrvSpawnWorker
    \/ DrvDropTx
    \/ DrvStop
    \/ DrvRecv
    \/ DrvEndTime
    \/ DrvCopyCpu
    \/ DrvCopyMem

Worker(w) ==
    \/ WorkerConnect(w)
    \/ WorkerOpenStream(w)
    \/ WorkerCheck(w)
    \/ WorkerStart(w)
    \/ WorkerComplete(w)
    \/ WorkerSend(w)

Monitor ==
    \/ MonitorCheck
    \/ MonitorTick
    \/ MonitorPushCpu
    \/ MonitorPushMem

Next ==
    \/ Main
    \/ Driver
    \/ \E w \in Workers : Worker(w)
    \/ Monitor

Spec == Init /\ [][Next]_vars

\* The runs explored for the progress properties: those of Init but for one
\* of the two durations that parse (the duration is not read after the parse).
FairInit == Init /\ args.duration \notin {<<" ", "5", "m", "s">>}

\* The scheduling the tokio runtime gives: every task that can take a step
\* eventually takes one, the sleep timer fires and every awaited call returns.
FairSpec ==
    /\ FairInit
    /\ [][Next]_vars
    /\ WF_vars(Main)
    /\ WF_vars(Driver)
    /\ \A w \in Workers : WF_vars(Worker(w))
    /\ WF_vars(Monitor)

\* ------------------------------------------- the statistics on their own
\* A Results value is built by add_sample from samples with a latency and
\* the two times are set; print_summary is then applied to it. Nothing else
\* of the program runs.
StatArgs ==
    [scenario |-> "balance", protocol |-> "grpc", concurrency |-> 0,
     duration |-> << "1", "s" >>]

StatInit == Init /\ args = StatArgs

\* The i-th sample of the long run
ChainSample(i) == [latency |-> i, success |-> TRUE]

IsChain(s) == \A i \in 1..Len(s) : s[i] = ChainSample(i)

\* results.add_sample(Sample { latency, success }): any sample while the
\* sequence is short, the next of the long run beyond that
StatAddSample ==
    /\ console = << >>
    /\ \E sample \in [latency : 0..MaxLatency, success : BOOLEAN]
                     \cup {ChainSample(Len(results.samples) + 1)} :
         /\ \/ Len(results.samples) < MaxSamples /\ sample.latency <= MaxLatency
            \/ /\ Len(results.samples) < BigRun
               /\ IsChain(results.samples)
               /\ sample = ChainSample(Len(results.samples) + 1)
         /\ results' = add_sample(results, sample)
    /\ UNCHANGED << mainVars, workerVars, monitorVars, chanVars, drvPc,
                    running, spawned, now >>

\* results.start_time = Some(Instant::now()): the first reading of the clock
StatSetStart ==
    /\ console = << >>
    /\ results.start_time = -1
    /\ results' = [results EXCEPT !.start_time = now]
    /\ UNCHANGED << mainVars, workerVars, monitorVars, chanVars, drvPc,
                    running, spawned, now >>

\* results.end_time = Some(Instant::now()): a later reading, or the same
StatSetEnd ==
    /\ console = << >>
    /\ results.end_time = -1
    /\ \E t \in 0..MaxTime : results' = [results EXCEPT !.end_time = t]
    /\ UNCHANGED << mainVars, workerVars, monitorVars, chanVars, drvPc,
                    running, spawned, now >>

\* results.print_summary(..)
StatPrint ==
    /\ console = << >>
    /\ console' = Say("summary", print_summary(results))
    /\ UNCHANGED << args, mainPc, exitStatus, duration, accounts, storeResult,
                    workerVars, monitorVars, chanVars, drvPc, running, spawned,
                    results, now >>

StatNext ==
    \/ StatAddSample
    \/ StatSetStart
    \/ StatSetEnd
    \/ StatPrint

StatSpec == StatInit /\ [][StatNext]_vars

\* ------------------------------------------------------------------ properties
\* Positions in seq of the samples of worker w
SamplesOf(seq, w) == { i \in 1..Len(seq) : seq[i].w = w }

\* Invocations of worker w that have returned
Completed(w) == IF wPc[w] = "invoke" THEN started[w] - 1 ELSE started[w]

RECURSIVE SumCompleted(_)
SumCompleted(ws) ==
    IF ws = {} THEN 0
    ELSE LET w == CHOOSE x \in ws : TRUE
         IN  Completed(w) + SumCompleted(ws \ {w})

\* C1: drain completeness in the balance runs. When the run function has
\* returned, the channel is empty and closed and the Run Result holds exactly
\* one sample for each invocation any worker completed: as many samples as
\* invocations, and each invocation (worker, number) exactly once.
DrainComplete ==
    (BalanceMode /\ drvPc = "returned") =>
        /\ chan = << >>
        /\ Closed
        /\ Len(results.samples) = SumCompleted(Workers)
        /\ Mode = "grpc_balance" => Len(results.samples) = request_count
        /\ \A w \in Workers : \A n \in 1..started[w] :
             Cardinality({ i \in 1..Len(results.samples) :
                             results.samples[i].w = w /\ results.samples[i].n = n }) = 1

\* C1 witness: a balance run has returned with samples of two workers, one of
\* them sent after the flag was cleared.
DrainCompleteWitness ==
    /\ BalanceMode
    /\ drvPc = "returned"
    /\ \A w \in Workers : SamplesOf(results.samples, w) # {}
    /\ \E i \in 1..Len(results.samples) : results.samples[i].late

\* C2: in the balance runs, once the run flag is cleared the run function
\* returns.
DrainTerminates == (BalanceMode /\ running = "false") ~> (drvPc = "returned")

\* C2 witness: the flag is cleared while a worker waits to send on a full
\* channel and the driver drains.
DrainTerminatesWitness ==
    /\ BalanceMode
    /\ drvPc = "drain"
    /\ Len(chan) = ChanCap
    /\ \E w \in Workers : wPc[w] = "send"

\* Every Sample that exists: collected, buffered, or about to be sent
AllSamples(w) == results.samples \o chan \o pending[w]

\* C3: end_time is recorded right after the duration wait, before the driver
\* receives any sample in the drain loop.
EndTimeBeforeDrain == results.samples # << >> => results.end_time # -1

\* C4: when the driver copies the readings the monitor task has left its
\* loop, and the Run Result holds every reading the monitor took.
SamplerStoppedAtCopy ==
    drvPc \in {"copy_mem", "returned"} =>
        /\ mPc = "done"
        /\ results.cpu_samples = cpu_samples
        /\ drvPc = "returned" => results.mem_samples = mem_samples

\* Samples of worker w with success = false
FailedSamples(w) ==
    { i \in SamplesOf(AllSamples(w), w) : ~AllSamples(w)[i].success }

\* C5: in every run mode each failed invocation is recorded as exactly one
\* sample with success = false, and the worker's loop goes on: a worker that
\* met a failure ends only by reading the cleared flag.
FailureRecorded ==
    \A w \in Workers :
        /\ Cardinality(FailedSamples(w)) = failures[w]
        /\ (failures[w] > 0 /\ wPc[w] = "done") => wExit[w] = "stopped"

\* Ways the construction of a worker's Operation fails
SetupFailures == {"invalid_uri", "connect_failed", "build_failed", "stream_start_failed"}

\* Samples worker w is to have in the Run Result once it has ended
SamplesDue(w) ==
    IF wExit[w] \in {"stream_error", "stream_end"} THEN started[w] - 1 ELSE started[w]

SetupFailureInv ==
    /\ \A w \in Workers : wExit[w] \in SetupFailures =>
         /\ started[w] = 0
         /\ w \notin wTx
         /\ SamplesOf(AllSamples(w), w) = {}
    /\ drvPc = "returned" =>
         /\ \A w \in Workers :
              Cardinality(SamplesOf(results.samples, w)) = SamplesDue(w)
         /\ (\A w \in 1..args.concurrency : wExit[w] \in SetupFailures) =>
              /\ results.samples = << >>
              /\ results.start_time # -1
              /\ results.end_time # -1

\* C6: a worker whose setup fails sends no sample and releases its Sender,
\* the samples of the other workers are all collected, and the run function
\* still returns; with every setup failed it returns an empty sample
\* sequence with start_time and end_time set.
SetupFailureNotFatal ==
    /\ []SetupFailureInv
    /\ (\E w \in Workers : wExit[w] \in SetupFailures) ~> (drvPc = "returned")

\* C6 witness: the run function has returned with one worker's setup failed
\* and another worker's samples collected.
SetupFailureWitness ==
    /\ drvPc = "returned"
    /\ \E w1, w2 \in Workers :
         /\ wExit[w1] \in SetupFailures
         /\ SamplesOf(results.samples, w2) # {}

\* Samples of worker w whose invocation began after the flag was cleared
LateSamples(w) ==
    { i \in SamplesOf(AllSamples(w), w) : AllSamples(w)[i].late }

FlagSingleWriter ==
    [][/\ running' # running =>
            /\ UNCHANGED << wPc, mPc >>
            /\ \/ running = "unset" /\ running' = "true" /\ drvPc = "create"
               \/ running = "true" /\ running' = "false" /\ drvPc = "sleep"
       /\ (mPc = "unspawned" /\ mPc' # "unspawned") => running = "true"
       /\ \A w \in Workers :
            (wPc[w] = "unspawned" /\ wPc'[w] # "unspawned") => running = "true"
       /\ drvPc' = "returned" => running' = "false"]_vars

\* C8 witness: the flag is cleared while a worker is in an invocation and the
\* monitor waits for its tick.
FlagSingleWriterWitness ==
    /\ running = "false"
    /\ mPc = "tick"
    /\ \E w \in Workers : wPc[w] = "invoke"

\* C9: when store_results fails the failure is reported: something is
\* printed after the summary.
SinkFailureReported ==
    storeResult = "Err" => console[Len(console)].tag # "summary"

\* C10: a duration that does not parse ends main with an error before the
\* channel, the flag, the monitor or a worker exists and before a summary is
\* printed; a run that has started always ends with the run function
\* returned and the summary printed, whatever its requests did.
OnlyStructuralFailuresAbort ==
    /\ parse_duration(args.duration) = -1 =>
         /\ drvPc = "idle"
         /\ running = "unset"
         /\ ~rxOpen
         /\ mPc = "unspawned"
         /\ \A w \in Workers : wPc[w] = "unspawned"
         /\ ~Said("summary")
         /\ mainPc \notin {"pool", "fetch", "start", "run", "store"}
         /\ mainPc = "exit" => exitStatus \in {"err", "exit1"}
    /\ (drvPc # "idle" /\ mainPc = "exit") =>
         /\ drvPc = "returned"
         /\ Said("summary")
         /\ exitStatus = "ok"

\* C10 witness: main has returned an error for a duration that does not
\* parse, with valid scenario and protocol.
ParseFailureWitness ==
    /\ Mode # "none"
    /\ parse_duration(args.duration) = -1
    /\ mainPc = "exit"
    /\ exitStatus = "err"

\* The percentiles asked for
Percents == 0..100

\* The Run Result is complete: its statistics have been asked for
Frozen == console # << >>

\* Positions of the successful samples of r
Successes(r) == { i \in 1..Len(r.samples) : r.samples[i].success }

\* C11: after any sequence of add_sample, of successful and failed samples
\* in any mix, success_count() + error_count() is the length of the sample
\* sequence.
CountsPartition ==
    success_count(results) + error_count(results) = Len(results.samples)

\* C11 witness: three samples were added, successful and failed ones.
CountsPartitionWitness ==
    /\ Len(results.samples) = MaxSamples
    /\ success_count(results) > 0
    /\ error_count(results) > 0

\* C12: for a complete Run Result with at least one successful sample,
\* percentile(100) is max_latency(), the largest latency among the
\* successful samples.
PercentileHundredIsMax ==
    (Frozen /\ Successes(results) # {}) =>
        /\ percentile(results, 100) = max_latency(results)
        /\ \A i \in Successes(results) :
             results.samples[i].latency <= percentile(results, 100)
        /\ \E i \in Successes(results) :
             results.samples[i].latency = percentile(results, 100)

\* C12 witness: successful samples of different latencies, the largest not
\* the last one added, and a failed sample slower than all of them.
PercentileHundredWitness ==
    /\ Frozen
    /\ Cardinality(Successes(results)) >= 2
    /\ \E i \in Successes(results) :
         results.samples[i].latency > results.samples[Len(results.samples)].latency
    /\ \E i \in 1..Len(results.samples) :
         /\ ~results.samples[i].success
         /\ results.samples[i].latency > max_latency(results)

\* No element of the sequence s is larger than the next one
NonDecreasing(s) == \A i \in 1..(Len(s) - 1) : s[i] <= s[i + 1]

\* C13: for a fixed Run Result and p1 <= p2 in 0..100,
\* percentile(p1) <= percentile(p2): the percentiles of a complete Run
\* Result for p = 0, 1, ..., 100, in this order, never decrease from one to
\* the next.
PercentileMonotone ==
    Frozen =>
        NonDecreasing([i \in 1..Cardinality(Percents) |->
                          percentile(results, i - 1)] \o << >>)

\* C13 witness: successful samples that arrived in descending order of
\* latency, so that the percentiles differ.
PercentileMonotoneWitness ==
    /\ Frozen
    /\ Len(latencies(results)) >= 2
    /\ latencies(results)[1] > latencies(results)[2]
    /\ percentile(results, 0) < percentile(results, 100)

\* C14: with no sample, and with samples none of which is successful, every
\* latency statistic and the throughput are zero, and none of them is the
\* outcome of an index out of range or of a division by zero.
ZeroWithoutSuccess ==
    Successes(results) = {} =>
        /\ \A p \in Percents : percentile(results, p) = 0
        /\ avg_latency(results) = 0
        /\ min_latency(results) = 0
        /\ max_latency(results) = 0
        /\ throughput(results)[1] = 0
        /\ throughput(results)[2] # 0
        /\ console # << >> =>
             LET out == console[1].val
             IN  /\ out.p50 = 0 /\ out.p90 = 0 /\ out.p99 = 0
                 /\ out.avg = 0 /\ out.min = 0 /\ out.max = 0
                 /\ out.throughput[1] = 0

\* C14 witness: the summary was printed of a Run Result whose samples all
\* failed, with a positive time between start_time and end_time.
ZeroWithoutSuccessWitness ==
    /\ Len(results.samples) >= 2
    /\ Successes(results) = {}
    /\ \E i \in 1..Len(results.samples) : results.samples[i].latency > 0
    /\ results.start_time # -1
    /\ results.end_time > results.start_time
    /\ console # << >>

\* C15: throughput() is the number of successful samples divided by
\* end_time - start_time in seconds when both times are set and the
\* difference is positive; it is zero when a time is unset, when the
\* difference is not positive and when every sample failed (error_count is
\* then the number of samples); failed samples add nothing to it.
ThroughputFormula ==
    LET t == throughput(results)
        n == Cardinality(Successes(results))
    IN  /\ t[2] > 0
        /\ IF /\ results.start_time # -1
              /\ results.end_time # -1
              /\ results.end_time - results.start_time > 0
           THEN t[1] * (results.end_time - results.start_time) = n * t[2]
           ELSE t[1] = 0
        /\ n = 0 => t[1] = 0 /\ error_count(results) = Len(results.samples)

\* C15 witness: both times set, end_time the later, successful and failed
\* samples.
ThroughputWitness ==
    /\ results.start_time # -1
    /\ results.end_time > results.start_time
    /\ Successes(results) # {}
    /\ Cardinality(Successes(results)) < Len(results.samples)

\* The Run Result r without its failed samples
WithoutFailed(r) ==
    [r EXCEPT !.samples = SelectSeq(r.samples, LAMBDA x : x.success)]

\* C16: percentile(p) is the nearest-rank estimator over the successful
\* samples: with their n latencies sorted ascending it is the element at
\* index min(floor(p * n / 100), n - 1), and zero when n = 0; the failed
\* samples change neither percentile nor avg_latency, min_latency and
\* max_latency.
NearestRank ==
    LET sorted == Sort(latencies(results))
        n == Len(sorted)
        r2 == WithoutFailed(results)
    IN  /\ \A p \in Percents :
             /\ percentile(results, p) =
                    IF n = 0 THEN 0 ELSE sorted[Min((p * n) \div 100, n - 1) + 1]
             /\ percentile(results, p) = percentile(r2, p)
        /\ avg_latency(results) = avg_latency(r2)
        /\ min_latency(results) = min_latency(r2)
        /\ max_latency(results) = max_latency(r2)

\* C17: the CPU and the memory readings of the returned Run Result are
\* parallel sequences: of the same length, their i-th entries of the same
\* sampling tick.
ReadingsParallel ==
    drvPc = "returned" =>
        /\ Len(results.cpu_samples) = Len(results.mem_samples)
        /\ \A i \in 1..Len(results.cpu_samples) :
             results.cpu_samples[i] = results.mem_samples[i]

SendFindsReceiver == \A w \in Workers : wPc[w] = "send" => rxOpen

\* C21: the samples of the Run Result change only by the collector loop
\* appending the head of the channel, its resource readings only by the two
\* copies after the drain, its times only where the run function reads the
\* clock; a step of a worker or of the monitor leaves the Run Result alone;
\* and once the run function has returned no step changes it.
RunResultFrozen ==
    [][/\ results'.samples # results.samples =>
             /\ drvPc = "drain" /\ chan # << >>
             /\ results'.samples = Append(results.samples, Head(chan))
       /\ results'.cpu_samples # results.cpu_samples =>
             drvPc = "copy_cpu" /\ results'.cpu_samples = cpu_samples
       /\ results'.mem_samples # results.mem_samples =>
             drvPc = "copy_mem" /\ results'.mem_samples = mem_samples
       /\ results'.start_time # results.start_time => drvPc = "start_time"
       /\ results'.end_time # results.end_time => drvPc = "end_time"
       /\ (workerVars' # workerVars \/ monitorVars' # monitorVars) =>
             results' = results
       /\ drvPc = "returned" => results' = results]_vars

\* C21 witness: the run function has returned a Run Result with a sample,
\* and the monitor, whose late tick appended a reading after the copy, has
\* ended: the shared vector is longer than the Run Result's.
RunResultFrozenWitness ==
    /\ drvPc = "returned"
    /\ mPc = "done"
    /\ results.samples # << >>
    /\ Len(cpu_samples) > Len(results.cpu_samples)

\* C22: while the flag is set the driver has received nothing, so the
\* channel holds every sample sent and a worker that is to send into the
\* full channel stays where it is; the samples collected and buffered are
\* never more than the channel's capacity plus the concurrency, and so are
\* the samples of the returned Run Result.
SamplesBounded ==
    /\ [](running = "true" => results.samples = << >>)
    /\ [](Len(chan) <= ChanCap)
    /\ [][\A w \in Workers :
            (running = "true" /\ Len(chan) = ChanCap /\ wPc[w] = "send")
                => (wPc'[w] = "send" /\ pending'[w] = pending[w])]_vars
    /\ [](Len(results.samples) + Len(chan) <= ChanCap + args.concurrency)
    /\ [](drvPc = "returned" =>
             Len(results.samples) <= ChanCap + args.concurrency)

\* C22 witness: the Run Result returned to a run of the largest concurrency
\* holds as many samples as the channel's capacity plus the concurrency.
SamplesBoundedWitness ==
    /\ drvPc = "returned"
    /\ args.concurrency = MaxWorkers
    /\ Len(results.samples) = ChanCap + args.concurrency

\* Worker w of the stream run opened its stream: it came to its loop
OpenedStream(w) ==
    /\ Mode = "grpc_stream"
    /\ wPc[w] \notin {"unspawned", "connect", "open_stream"}
    /\ wExit[w] \notin {"invalid_uri", "connect_failed", "stream_start_failed"}

\* In the stream run a worker reads the flag at its loop head only: it ends
\* on the flag from there, and its wait for the next stream item ends with
\* an item, whatever the flag: an event, which it sends, or a stream error or
\* the end of the stream.
StreamFlagAfterItem ==
    [][Mode = "grpc_stream" =>
         \A w \in Workers :
           /\ (wExit'[w] = "stopped" /\ wExit[w] # "stopped") =>
                  (wPc[w] = "check" /\ running = "false")
           /\ (wPc[w] = "invoke" /\ wPc'[w] # "invoke") =>
                  \/ wPc'[w] = "send"
                  \/ wExit'[w] \in {"stream_error", "stream_end"}]_vars

\* In the stream run a worker that meets a stream error or the end of the
\* stream ends in that step and sends nothing: of its last invocation there
\* is no sample.
StreamBreakNoSample ==
    /\ [][Mode = "grpc_stream" =>
            \A w \in Workers :
              (wExit'[w] \in {"stream_error", "stream_end"} /\ wExit[w] = "none") =>
                 /\ wPc[w] = "invoke" /\ wPc'[w] = "done"
                 /\ chan' = chan /\ pending'[w] = << >>]_vars
    /\ [](\A w \in Workers :
            wExit[w] \in {"stream_error", "stream_end"} =>
               Cardinality(SamplesOf(AllSamples(w), w)) = started[w] - 1)

\* C23 as stated: in the stream run a worker reads the flag only after its
\* wait for the next stream item has returned, the run function returns only
\* after every worker that opened a stream has received an item after the
\* flag was cleared, and a worker leaves on a stream error or the end of the
\* stream without a sample.
StreamItemBeforeReturn ==
    /\ StreamFlagAfterItem
    /\ StreamBreakNoSample
    /\ []((Mode = "grpc_stream" /\ drvPc = "returned") =>
             \A w \in Workers : OpenedStream(w) => lateItem[w])

\* C23, amended: in the stream run a worker reads the flag only after its
\* wait for the next stream item has returned; a worker that waits for a
\* stream item, or is about to, while the flag is cleared leaves that wait
\* only with an item received after the clear, and the run function goes
\* past its drain only when every worker has ended; a worker that received
\* an item after the clear had opened a stream; a worker leaves on a stream
\* error or the end of the stream without a sample.
StreamWaitBeforeReturn ==
    /\ StreamFlagAfterItem
    /\ StreamBreakNoSample
    /\ [][Mode = "grpc_stream" =>
            \A w \in Workers :
              /\ (running = "false" /\ wPc[w] \in {"start", "invoke"}) =>
                     (wPc'[w] \in {"start", "invoke"} \/ lateItem'[w])
              /\ lateItem[w] => lateItem'[w]]_vars
    /\ []((Mode = "grpc_stream"
              /\ drvPc \in {"end_time", "copy_cpu", "copy_mem", "returned"}) =>
             \A w \in Workers : wPc[w] \in {"unspawned", "done"})
    /\ [](\A w \in Workers : lateItem[w] => OpenedStream(w))

\* C23 witness: a stream run has returned; one worker received the end of its
\* stream after the flag was cleared and left without a sample of it, another
\* opened its stream and received nothing after the clear.
StreamWaitWitness ==
    /\ Mode = "grpc_stream"
    /\ drvPc = "returned"
    /\ \E w, v \in Workers :
         /\ lateItem[w] /\ wExit[w] = "stream_end"
         /\ OpenedStream(v) /\ ~lateItem[v] /\ wExit[v] = "stopped"
         /\ SamplesOf(results.samples, v) # {}

====
